---- MODULE Spec2Model ----
(* copy_and_verify.py: a batch copier.  It creates the destination directory *)
(* when absent, copies each manifest entry whose source exists, records the  *)
(* destination listing, catches any exception of these steps into the log,   *)
(* and finally writes the log to copy_log.txt.                               *)
(* The file system is the environment: every call into it may raise.         *)
EXTENDS Naturals, Sequences, FiniteSets, TLC

(* ---------------------------------------------------------------- bounds *)
\* File contents are 0..MaxContent; 0 is the empty byte string.
MaxContent == 1

(* ------------------------------------------------------ program constants *)
src_dir == "/Users/agustinmontoya/.gemini/antigravity/brain/78cdc80a-5658-49ad-b030-70cc2cb4da13/"
dst_dir == "/Users/agustinmontoya/Projectos/MVPs/juego-cartas-educativo/mindspark-duel/public/assets/decks/"

files ==
  << <<"technomancer_epic_box_1764234646053.png", "technomancer-box.png">>,
     <<"nature_epic_box_1764234660611.png", "grove-guardians-box.png">>,
     <<"arcane_epic_box_1764234805234.png", "arcane-scholars-box.png">> >>

LogPath == "copy_log.txt"

Entries == 1..Len(files)
src_name(k) == files[k][1]
dst_name(k) == files[k][2]

\* os.path.join(dir, name) for a dir that ends with the separator and a
\* relative name: plain concatenation.
PathJoin(dir, name) == dir \o name
SrcPath(k) == PathJoin(src_dir, src_name(k))
DstPath(k) == PathJoin(dst_dir, dst_name(k))

(* ------------------------------------------------------------ file system *)
Contents == 0..MaxContent
EmptyContent == {0}

\* A directory entry: nothing, a regular file with its bytes, or a directory.
\* For a directory at a destination path, data holds the bytes of the file
\* inside it that carries the entry's source name (no such file: {}).
NoEntry == [kind |-> "absent", data |-> {}]
FileOf(c) == [kind |-> "file", data |-> {c}]
DirOf(d) == [kind |-> "dir", data |-> d]
Files == {FileOf(c) : c \in Contents}

\* A name in the destination directory that no manifest entry maps to.
OtherName == "README.txt"

VARIABLES
  srcFiles,   \* entry k -> what is at src_dir/src_name(k)
  dstKind,    \* what is at dst_dir: "absent", "dir" or "file"
  dstFiles,   \* entry k -> what is at dst_dir/dst_name(k)
  other,      \* what is at dst_dir/OtherName
  logfile,    \* copy_log.txt: [exists, text]
  log,        \* the list log
  pc,         \* position of the script
  i,          \* position of the for loop in files
  err,        \* message of the exception the except clause caught, or "none"
  errAt,      \* the call that raised it, or "none"
  fault,      \* an I/O fault of the environment hit a call inside the try block
  prev,       \* the previous run: "none", "clean", "failed" (raised by itself) or "faulted"
  dstFiles0,  \* dstFiles when the current run started
  dstKind0,   \* dstKind when the current run started
  other0,     \* other when the current run started
  srcFiles0,  \* srcFiles when the current run started
  logfile0    \* logfile when the current run started

vars == << srcFiles, dstKind, dstFiles, other, logfile, log, pc, i, err, errAt,
           fault, prev, dstFiles0, dstKind0, other0, srcFiles0, logfile0 >>

fsVars == << srcFiles, dstKind, dstFiles, other >>
snapVars == << dstFiles0, dstKind0, other0, srcFiles0, logfile0 >>
runVars == << prev >>

(* ------------------------------------------------------------- log lines *)
CreatedLine == "Created directory " \o dst_dir
CopiedLine(k) == "Copied " \o SrcPath(k) \o " to " \o DstPath(k)
NotFoundLine(k) == "Source file not found: " \o SrcPath(k)
ContentsLine == "Destination contents:"
ErrorLine(msg) == "Error: " \o msg

\* str() of a list of names: ['a', 'b'].
RECURSIVE ReprItems(_)
ReprItems(names) ==
  IF names = << >> THEN ""
  ELSE IF Len(names) = 1 THEN "'" \o names[1] \o "'"
  ELSE "'" \o names[1] \o "', " \o ReprItems(Tail(names))
StrOfList(names) == "[" \o ReprItems(names) \o "]"

\* '\n'.join(lines)
RECURSIVE JoinLines(_)
JoinLines(lines) ==
  IF lines = << >> THEN ""
  ELSE IF Len(lines) = 1 THEN lines[1]
  ELSE lines[1] \o "\n" \o JoinLines(Tail(lines))

(* ------------------------------------------------- file-system primitives *)
\* os.path.exists(dst_dir): dst_dir ends with a separator, so a regular file
\* of that name does not count as existing.
PathExistsDir(kind) == kind = "dir"

\* os.path.exists(src): true of a file and of a directory.
PathExists(entry) == entry.kind # "absent"

\* os.makedirs(dst_dir) raises by itself when a regular file has the name.
MakedirsRaises(kind) == kind = "file"

\* A copy that refuses to replace a file already at the destination.
CopyRaisesIfPresent(s, d) == s.kind = "dir" \/ d.kind = "file"

\* shutil.copy(src, dst) raises by itself when src is a directory; an
\* existing destination is no reason to raise.
CopyRaises(s, d) == s.kind = "dir"

\* A copy that keeps a file already at the destination (exclusive creation).
ShutilCopyKeep(s, d) ==
  IF d.kind = "dir" THEN DirOf(s.data)
  ELSE IF d.kind = "file" THEN d
  ELSE [kind |-> "file", data |-> s.data]

\* shutil.copy(src, dst): the bytes of src go to dst, replacing the bytes of
\* a file already there; when dst is a directory they go to the file of the
\* source's base name inside it.
ShutilCopy(s, d) ==
  IF d.kind = "dir" THEN DirOf(s.data) ELSE [kind |-> "file", data |-> s.data]

\* What an interrupted shutil.copy can leave at dst: nothing touched (open
\* failed), the destination truncated (the write failed), or all bytes
\* written (the permission copy failed).
CopyInterrupted(s, d) ==
  { d, ShutilCopy([s EXCEPT !.data = EmptyContent], d), ShutilCopy(s, d) }

\* A listing of the names the manifest maps to instead of the names present.
NamesInManifest(df, o) == { dst_name(k) : k \in Entries }

\* os.listdir(dst_dir): the names present, in the order the file system yields.
NamesIn(df, o) ==
  { dst_name(k) : k \in { e \in Entries : df[e].kind # "absent" } }
    \cup (IF o.kind # "absent" THEN {OtherName} ELSE {})
RECURSIVE Orderings(_)
Orderings(S) ==
  IF S = {} THEN { << >> }
  ELSE UNION { { << x >> \o rest : rest \in Orderings(S \ {x}) } : x \in S }
ListDir(df, o) == Orderings(NamesIn(df, o))

\* Messages of the exceptions the calls raise.
MakedirsMsgs(kind) ==
  IF MakedirsRaises(kind)
  THEN {"[Errno 17] File exists: '" \o dst_dir \o "'"}
  ELSE {"[Errno 13] Permission denied: '" \o dst_dir \o "'"}
CopyMsgs(k, s) ==
  IF s.kind = "dir"
  THEN {"[Errno 21] Is a directory: '" \o SrcPath(k) \o "'"}
  ELSE {"[Errno 13] Permission denied: '" \o DstPath(k) \o "'"}
ListdirMsgs == {"[Errno 13] Permission denied: '" \o dst_dir \o "'"}

(* ------------------------------------------------------------------ Init *)
SrcEntries == {NoEntry, DirOf({})} \cup Files
DstEntries == {NoEntry, DirOf({})} \cup Files
OtherEntries == {NoEntry, FileOf(0)}
OldLog == [exists |-> TRUE, text |-> "Error: stale"]
NoLog == [exists |-> FALSE, text |-> ""]

Init ==
  /\ srcFiles \in [Entries -> SrcEntries]
  /\ dstKind \in {"absent", "dir", "file"}
  /\ IF dstKind = "dir"
     THEN /\ dstFiles \in [Entries -> DstEntries]
          /\ other \in OtherEntries
     ELSE /\ dstFiles = [k \in Entries |-> NoEntry]
          /\ other = NoEntry
  /\ logfile \in {NoLog, OldLog}
  /\ log = << >>
  /\ pc = "mkdir"
  /\ i = 1
  /\ err = "none"
  /\ errAt = "none"
  /\ fault = FALSE
  /\ prev = "none"
  /\ dstFiles0 = dstFiles
  /\ dstKind0 = dstKind
  /\ other0 = other
  /\ srcFiles0 = srcFiles
  /\ logfile0 = logfile

(* --------------------------------------------------------------- actions *)
\* except Exception as e: log.append(f"Error: {e}"); control leaves the try
\* block for the log write.
Except(msg, at, injected) ==
  /\ log' = Append(log, ErrorLine(msg))
  /\ err' = msg
  /\ errAt' = at
  /\ fault' = (fault \/ injected)
  /\ pc' = "write"

\* A directory check that logs the creation although the directory is there.
DirPresentLogged ==
  /\ pc = "mkdir"
  /\ PathExistsDir(dstKind)
  /\ log' = Append(log, CreatedLine)
  /\ pc' = "loop"
  /\ UNCHANGED << fsVars, logfile, i, err, errAt, fault, runVars, snapVars >>

\* Line 15, directory present: nothing is done and nothing is logged.
DirPresent ==
  /\ pc = "mkdir"
  /\ PathExistsDir(dstKind)
  /\ pc' = "loop"
  /\ UNCHANGED << fsVars, logfile, log, i, err, errAt, fault, runVars, snapVars >>

\* Lines 15-17, directory absent and os.makedirs succeeds.
MakeDirs ==
  /\ pc = "mkdir"
  /\ ~PathExistsDir(dstKind)
  /\ ~MakedirsRaises(dstKind)
  /\ dstKind' = "dir"
  /\ log' = Append(log, CreatedLine)
  /\ pc' = "loop"
  /\ UNCHANGED << srcFiles, dstFiles, other, logfile, i, err, errAt, fault,
                  runVars, snapVars >>

\* Lines 15-16 and 30-31, os.makedirs raises.
MakeDirsRaise ==
  /\ pc = "mkdir"
  /\ ~PathExistsDir(dstKind)
  /\ \E msg \in MakedirsMsgs(dstKind) :
       Except(msg, "makedirs", ~MakedirsRaises(dstKind))
  /\ UNCHANGED << fsVars, logfile, i, runVars, snapVars >>

\* A missing source that is logged and leaves an empty file at the destination.
SourceMissingTouches ==
  /\ pc = "loop"
  /\ i \in Entries
  /\ ~PathExists(srcFiles[i])
  /\ dstFiles' = [dstFiles EXCEPT ![i] = ShutilCopy(FileOf(0), dstFiles[i])]
  /\ log' = Append(log, NotFoundLine(i))
  /\ i' = i + 1
  /\ UNCHANGED << srcFiles, dstKind, other, logfile, pc, err, errAt, fault,
                  runVars, snapVars >>

\* Lines 19-22 and 25-26, the source is missing: logged, the loop goes on.
SourceMissing ==
  /\ pc = "loop"
  /\ i \in Entries
  /\ ~PathExists(srcFiles[i])
  /\ log' = Append(log, NotFoundLine(i))
  /\ i' = i + 1
  /\ UNCHANGED << fsVars, logfile, pc, err, errAt, fault, runVars, snapVars >>

\* A move in place of the copy: the source is gone afterwards.
CopyFileMove ==
  /\ pc = "loop"
  /\ i \in Entries
  /\ PathExists(srcFiles[i])
  /\ ~CopyRaises(srcFiles[i], dstFiles[i])
  /\ dstFiles' = [dstFiles EXCEPT ![i] = ShutilCopy(srcFiles[i], dstFiles[i])]
  /\ srcFiles' = [srcFiles EXCEPT ![i] = NoEntry]
  /\ log' = Append(log, CopiedLine(i))
  /\ i' = i + 1
  /\ UNCHANGED << dstKind, other, logfile, pc, err, errAt, fault,
                  runVars, snapVars >>

\* Lines 19-24, the source exists and shutil.copy succeeds.
CopyFile ==
  /\ pc = "loop"
  /\ i \in Entries
  /\ PathExists(srcFiles[i])
  /\ ~CopyRaises(srcFiles[i], dstFiles[i])
  /\ dstFiles' = [dstFiles EXCEPT ![i] = ShutilCopy(srcFiles[i], dstFiles[i])]
  /\ log' = Append(log, CopiedLine(i))
  /\ i' = i + 1
  /\ UNCHANGED << srcFiles, dstKind, other, logfile, pc, err, errAt, fault,
                  runVars, snapVars >>

\* An exception of shutil.copy caught inside the loop: logged, and the loop
\* goes on with the next entry.
CopyFileRaiseContinue ==
  /\ pc = "loop"
  /\ i \in Entries
  /\ PathExists(srcFiles[i])
  /\ \E left \in (IF CopyRaises(srcFiles[i], dstFiles[i])
                  THEN {dstFiles[i]}
                  ELSE CopyInterrupted(srcFiles[i], dstFiles[i])) :
       dstFiles' = [dstFiles EXCEPT ![i] = left]
  /\ \E msg \in CopyMsgs(i, srcFiles[i]) :
       /\ log' = Append(log, ErrorLine(msg))
       /\ err' = msg
  /\ errAt' = "copy"
  /\ fault' = (fault \/ ~CopyRaises(srcFiles[i], dstFiles[i]))
  /\ i' = i + 1
  /\ UNCHANGED << srcFiles, dstKind, other, logfile, pc, runVars, snapVars >>

\* Lines 19-23 and 30-31, shutil.copy raises: by itself, leaving the
\* destination alone, or on an I/O fault, leaving what it had written.
CopyFileRaise ==
  /\ pc = "loop"
  /\ i \in Entries
  /\ PathExists(srcFiles[i])
  /\ \E left \in (IF CopyRaises(srcFiles[i], dstFiles[i])
                  THEN {dstFiles[i]}
                  ELSE CopyInterrupted(srcFiles[i], dstFiles[i])) :
       dstFiles' = [dstFiles EXCEPT ![i] = left]
  /\ \E msg \in CopyMsgs(i, srcFiles[i]) :
       Except(msg, "copy", ~CopyRaises(srcFiles[i], dstFiles[i]))
  /\ UNCHANGED << srcFiles, dstKind, other, logfile, i, runVars, snapVars >>

\* Lines 28-29, after the last entry: the heading, then the listing.
ListContents ==
  /\ pc = "loop"
  /\ i = Len(files) + 1
  /\ \E names \in ListDir(dstFiles, other) :
       log' = log \o << ContentsLine, StrOfList(names) >>
  /\ pc' = "write"
  /\ UNCHANGED << fsVars, logfile, i, err, errAt, fault, runVars, snapVars >>

\* Lines 28-31, os.listdir raises after the heading was appended.
ListContentsRaise ==
  /\ pc = "loop"
  /\ i = Len(files) + 1
  /\ \E msg \in ListdirMsgs :
       /\ log' = log \o << ContentsLine, ErrorLine(msg) >>
       /\ err' = msg
  /\ errAt' = "listdir"
  /\ fault' = TRUE
  /\ pc' = "write"
  /\ UNCHANGED << fsVars, logfile, i, runVars, snapVars >>

\* Lines 33-34: open(..., 'w') truncates, write puts the joined log.
WriteLog ==
  /\ pc = "write"
  /\ logfile' = [exists |-> TRUE, text |-> JoinLines(log)]
  /\ pc' = "done"
  /\ UNCHANGED << fsVars, log, i, err, errAt, fault, runVars, snapVars >>

\* Line 33, open raises outside any try block: the exception reaches the
\* caller and the file is as it was.
OpenLogRaise ==
  /\ pc = "write"
  /\ pc' = "crashed"
  /\ UNCHANGED << fsVars, logfile, log, i, err, errAt, fault, runVars, snapVars >>

\* Line 34, write raises after open truncated the file.
WriteLogRaise ==
  /\ pc = "write"
  /\ logfile' = [exists |-> TRUE, text |-> ""]
  /\ pc' = "crashed"
  /\ UNCHANGED << fsVars, log, i, err, errAt, fault, runVars, snapVars >>

\* The script is started again on the file system the last run left.
Rerun ==
  /\ pc \in {"done", "crashed"}
  /\ prev' = IF fault THEN "faulted" ELSE IF err = "none" THEN "clean" ELSE "failed"
  /\ log' = << >>
  /\ pc' = "mkdir"
  /\ i' = 1
  /\ err' = "none"
  /\ errAt' = "none"
  /\ fault' = FALSE
  /\ dstFiles0' = dstFiles
  /\ dstKind0' = dstKind
  /\ other0' = other
  /\ srcFiles0' = srcFiles
  /\ logfile0' = logfile
  /\ UNCHANGED << fsVars, logfile >>

Next ==
  \/ DirPresent
  \/ MakeDirs
  \/ MakeDirsRaise
  \/ SourceMissing
  \/ CopyFile
  \/ CopyFileRaise
  \/ ListContents
  \/ ListContentsRaise
  \/ WriteLog
  \/ OpenLogRaise
  \/ WriteLogRaise

Spec == Init /\ [][Next]_vars

\* Runs in succession, the first one on a file system without a log file and
\* without foreign files in the destination directory.
InitTwice == Init /\ logfile = NoLog /\ other = NoEntry
NextTwice == Next \/ Rerun
SpecTwice == InitTwice /\ [][NextTwice]_vars

(* ---------------------------------------------------------------- claims *)
\* The run is over: the log was written, or the exception of the log write
\* reached the caller.
Ended == pc \in {"done", "crashed"}
LinesOf(l) == { l[p] : p \in 1..Len(l) }
Count(l, line) == Cardinality({ p \in 1..Len(l) : l[p] = line })
SourceIsFile(k) == srcFiles0[k].kind = "file"
SourceAbsent(k) == srcFiles0[k].kind = "absent"
\* The destination of entry k holds a regular file with the bytes of its source.
HasCopy(k) == dstFiles[k] = [kind |-> "file", data |-> srcFiles0[k].data]

C3_Claim == Ended => (pc = "done" /\ logfile.exists /\ logfile.text = JoinLines(log))

\* The line the loop appends for entry k.
EntryLine(k) == IF SourceAbsent(k) THEN NotFoundLine(k) ELSE CopiedLine(k)
\* The lines of the current run before anything was raised: the creation
\* line if the directory was made, then one line per entry passed, then the
\* heading once the loop is over.
CreatedPart ==
  IF dstKind0 # "dir" /\ pc # "mkdir" /\ errAt # "makedirs"
  THEN << CreatedLine >> ELSE << >>
EntryPart == [k \in 1..(i - 1) |-> EntryLine(k)]
HeadingPart ==
  IF pc \in {"write", "done", "crashed"} /\ errAt \in {"none", "listdir"}
  THEN << ContentsLine >> ELSE << >>
LinesBeforeRaise == CreatedPart \o EntryPart \o HeadingPart

\* C2 as stated: after a run in which a call of the try block raised, the log
\* is the lines accumulated before, in order, then exactly one line with the
\* message of the exception, and the log file is written with it.
C2_Claim ==
  (Ended /\ err # "none") =>
    /\ log = Append(LinesBeforeRaise, ErrorLine(err))
    /\ Count(log, ErrorLine(err)) = 1
    /\ logfile.exists
    /\ logfile.text = JoinLines(log)

\* What holds of C2 when the log write itself does not raise: the written
\* file carries the lines before the exception and its one error line.
WrittenLogAfterRaise ==
  (pc = "done" /\ err # "none") =>
    /\ log = Append(LinesBeforeRaise, ErrorLine(err))
    /\ Count(log, ErrorLine(err)) = 1
    /\ logfile = [exists |-> TRUE, text |-> JoinLines(log)]

NamesNow ==
  { files[k][2] : k \in { e \in Entries : dstFiles[e] # NoEntry } }
    \cup (IF other # NoEntry THEN {OtherName} ELSE {})
IsListingLine(line) == \E names \in Orderings(NamesNow) : line = StrOfList(names)

\* C7 as stated: in the log of a finished run the per-entry lines stand in
\* manifest order, one per processed entry, and every heading line
\* 'Destination contents:' is followed by a line listing the names present.
C7_Original ==
  pc = "done" =>
    /\ SubSeq(log, 1, Len(CreatedPart) + Len(EntryPart)) = CreatedPart \o EntryPart
    /\ \A p \in 1..Len(log) :
         log[p] = ContentsLine => (p < Len(log) /\ IsListingLine(log[p + 1]))

\* C7 amended: the log is, in this order, the creation line if the directory
\* was made, one line per entry passed in manifest order, then, only once all
\* entries are processed, the heading followed by the line listing the names
\* present in the destination directory or, when the listing raised, by the
\* line recording that error.
C7_LogInOrder ==
  /\ (ContentsLine \in LinesOf(log) =>
        (i = Len(files) + 1 /\ Count(log, ContentsLine) = 1))
  /\ (pc \in {"mkdir", "loop"} => log = LinesBeforeRaise)
  /\ ((pc \in {"write", "done", "crashed"} /\ errAt = "none") =>
        /\ Len(log) = Len(LinesBeforeRaise) + 1
        /\ SubSeq(log, 1, Len(log) - 1) = LinesBeforeRaise
        /\ log[Len(log) - 1] = ContentsLine
        /\ IsListingLine(log[Len(log)]))
  /\ ((pc \in {"write", "done", "crashed"} /\ errAt # "none") =>
        log = Append(LinesBeforeRaise, ErrorLine(err)))

\* A finished run with a copied entry, a missing one, and a listing of more
\* than one name.
C7_Witness ==
  /\ pc = "done"
  /\ errAt = "none"
  /\ \E k, m \in Entries : k < m /\ SourceAbsent(k) /\ SourceIsFile(m)
  /\ Cardinality(NamesNow) > 1
  /\ log[Len(log) - 1] = ContentsLine

\* C8 as stated: after a run the log file holds exactly the lines of the run
\* joined by single newlines, and nothing of what it held before.
C8_Claim ==
  Ended => (logfile.exists /\ logfile.text = JoinLines(log))

\* What holds of C8 when the log write itself does not raise.
WrittenLogIsJoin ==
  pc = "done" => logfile = [exists |-> TRUE, text |-> JoinLines(log)]

\* C9: when a copy raised at entry i, no later entry is copied or logged and
\* its destination path is as before the run, the copies of the entries
\* before i are in place, the log has no heading line, and control is at or
\* past the log write.
C9_AbortKeepsRest ==
  errAt = "copy" =>
    /\ pc \in {"write", "done", "crashed"}
    /\ i \in Entries
    /\ \A k \in Entries :
         k > i => /\ dstFiles[k] = dstFiles0[k]
                  /\ CopiedLine(k) \notin LinesOf(log)
                  /\ NotFoundLine(k) \notin LinesOf(log)
    /\ \A k \in Entries :
         (k < i /\ SourceIsFile(k)) =>
           /\ CopiedLine(k) \in LinesOf(log)
           /\ dstFiles[k] = IF dstFiles0[k].kind = "dir"
                             THEN [kind |-> "dir", data |-> srcFiles0[k].data]
                             ELSE [kind |-> "file", data |-> srcFiles0[k].data]
    /\ ContentsLine \notin LinesOf(log)

\* A finished run whose second copy raised: the first entry was replaced, the
\* third, whose source exists, was left with its old bytes.
C9_Witness ==
  /\ pc = "done"
  /\ errAt = "copy"
  /\ i = 2
  /\ SourceIsFile(1) /\ HasCopy(1) /\ dstFiles0[1] # dstFiles[1]
  /\ SourceIsFile(3) /\ dstFiles0[3].kind = "file" /\ ~HasCopy(3)
  /\ dstFiles[3] = dstFiles0[3]

\* C10: a run changes nothing in the source directory, no file of the
\* destination directory that the manifest does not name, and no destination
\* path of an entry whose source does not exist.
C10_Frame ==
  /\ srcFiles = srcFiles0
  /\ other = other0
  /\ \A k \in Entries : SourceAbsent(k) => dstFiles[k] = dstFiles0[k]

\* An aborted and written run on a directory holding a foreign file and the
\* destination file of a missing source, after one copy was made.
C10_Witness ==
  /\ pc = "done"
  /\ err # "none"
  /\ other0 # NoEntry
  /\ \E k, m \in Entries :
       /\ SourceAbsent(k) /\ dstFiles0[k].kind = "file"
       /\ SourceIsFile(m) /\ dstFiles[m] # dstFiles0[m]

====
